---- MODULE Spec2Model ----
(***************************************************************************)
(* A model of src/functions.py: the four stages of the YouTube ETL         *)
(* pipeline (getVideoIDs, getVideoTranscripts, transformData,              *)
(* createTextEmbeddings) and the parquet files they exchange.              *)
(*                                                                         *)
(* Text values (titles, transcripts, caption fragments) are sequences of   *)
(* one-character strings, so that substring search and replacement are     *)
(* computed as polars computes them.  A DataFrame is the sequence of its   *)
(* rows, each row a function from column names to values.  The remote      *)
(* services (the search endpoint, the captions API) are scripts chosen in  *)
(* the initial state: `pages' is what the endpoint answers to the first,   *)
(* second, ... request, `captions' what the captions API answers for the   *)
(* first, second, ... row.                                                 *)
(***************************************************************************)
EXTENDS Integers, Sequences, FiniteSets, TLC

VARIABLES
    pages,              \* search endpoint: the response bodies it will serve, in order
    captions,           \* captions API: the outcome of get_transcript for each row
    pc,                 \* position in the running function
    page_token,         \* getVideoIDs: page_token
    response,           \* getVideoIDs: response (body of the last response)
    requests,           \* the 'pageToken' parameter of every request sent, in order
    video_record_list,  \* getVideoIDs: video_record_list
    transcript_text_list, \* getVideoTranscripts: transcript_text_list
    video_ids,          \* file data/video-ids.parquet
    video_transcripts,  \* file data/video-transcripts.parquet
    video_index,        \* file data/video-index.parquet
    runs                \* number of completed transformData calls

vars == <<pages, captions, pc, page_token, response, requests, video_record_list,
          transcript_text_list, video_ids, video_transcripts, video_index, runs>>

(***************************************************************************)
(* Bounds of the model.                                                    *)
(***************************************************************************)
MaxPages == 3
MaxItems == 1
MaxRows == 2
MaxFrags == 2
MaxRuns == 2
Dim == 2

(***************************************************************************)
(* Python values and files.                                                *)
(***************************************************************************)
PyNone == [py |-> "None"]
PyInt0 == [py |-> "int", int |-> 0]
PyStr(s) == [py |-> "str", str |-> s]

NoFile == [exists |-> FALSE]
File(df) == [exists |-> TRUE, df |-> df]

Columns(df) == IF df = <<>> THEN {} ELSE DOMAIN df[1]

SeqsUpTo(S, n) == UNION {[1..k -> S] : k \in 0..n}

RECURSIVE Concat(_)
Concat(ss) == IF ss = <<>> THEN <<>> ELSE Head(ss) \o Concat(Tail(ss))

(***************************************************************************)
(* The search endpoint (spec section 6): a body is not JSON at all, a JSON *)
(* scalar (null, a number, a boolean), a JSON array, or a JSON object that *)
(* may hold an `items' array and a `nextPageToken' string.  An item has    *)
(* the shape the YouTube search API gives a search result.                 *)
(***************************************************************************)
VideoId(n) == <<"v", n>>
VideoIds == {VideoId(1), VideoId(2)}
PublishedAt == "2024-01-01T00:00:00Z"

SearchResult(v) ==
    [kind |-> "youtube#searchResult",
     id |-> [kind |-> "youtube#video", videoId |-> v],
     snippet |-> [publishedAt |-> PublishedAt, title |-> <<"t">>]]

ItemLists == SeqsUpTo({SearchResult(v) : v \in VideoIds}, MaxItems)
Tokens == {"", "CAUQAA"}
ListKind == "youtube#searchListResponse"

JsonObjects ==
    {[kind |-> ListKind]}
    \cup {[kind |-> ListKind, items |-> its] : its \in ItemLists}
    \cup {[kind |-> ListKind, nextPageToken |-> t] : t \in Tokens}
    \cup {[kind |-> ListKind, items |-> its, nextPageToken |-> t] :
            its \in ItemLists, t \in Tokens}

Bodies ==
    {[json |-> "invalid"], [json |-> "scalar"], [json |-> "array"]}
    \cup {[json |-> "object", value |-> o] : o \in JsonObjects}

HasKey(body, key) == body.json = "object" /\ key \in DOMAIN body.value
HasCursor(body) == HasKey(body, "nextPageToken")

CursorBodies == {b \in Bodies : HasCursor(b)}
FinalBodies == {b \in Bodies : ~HasCursor(b)}

(***************************************************************************)
(* getVideoRecords: json.loads raises JSONDecodeError on a body that is    *)
(* not JSON (caught: []); `'items' in response_data' is False for an       *)
(* object without the key and for an array ([]), and raises TypeError for  *)
(* null, a number or a boolean, which no except clause catches.            *)
(***************************************************************************)
Returned(v) == [raised |-> FALSE, value |-> v]
Raised(e) == [raised |-> TRUE, error |-> e]

getVideoRecords(resp) ==
    CASE resp.json = "invalid" -> Returned(<<>>)
      [] resp.json = "scalar"  -> Raised("TypeError")
      [] resp.json = "array"   -> Returned(<<>>)
      [] resp.json = "object"  ->
            IF "items" \in DOMAIN resp.value
            THEN Returned(resp.value.items)
            ELSE Returned(<<>>)

\* faulty variant: an empty token taken for a missing one
NextPageTokenIfTruthy(resp) ==
    IF HasKey(resp, "nextPageToken") /\ resp.value.nextPageToken # ""
    THEN PyStr(resp.value.nextPageToken)
    ELSE PyInt0

\* lines 52-57: json.loads(response.text)['nextPageToken'], any failure gives 0
NextPageToken(resp) ==
    IF HasKey(resp, "nextPageToken")
    THEN PyStr(resp.value.nextPageToken)
    ELSE PyInt0

\* pl.DataFrame(list of dicts): one row per dict, the dict's keys as columns
DataFrame(records) == records

(***************************************************************************)
(* getVideoIDs                                                             *)
(***************************************************************************)
CollectorUnchanged ==
    UNCHANGED <<pages, captions, transcript_text_list, video_transcripts,
                video_index, runs>>

\* lines 45-47: the loop test and the request
Request ==
    /\ pc = "loop"
    /\ page_token # PyInt0
    /\ requests' = Append(requests, page_token)
    /\ response' = pages[Len(requests) + 1]
    /\ pc' = "records"
    /\ UNCHANGED <<page_token, video_record_list, video_ids>>
    /\ CollectorUnchanged

\* faulty variant: `=' for `+=': each page's records overwrite the list
AppendRecordsOverwrite ==
    /\ pc = "records"
    /\ LET r == getVideoRecords(response) IN
         IF r.raised
         THEN /\ pc' = "raised"
              /\ UNCHANGED video_record_list
         ELSE /\ pc' = "token"
              /\ video_record_list' = r.value
    /\ UNCHANGED <<page_token, response, requests, video_ids>>
    /\ CollectorUnchanged

\* line 50: video_record_list += getVideoRecords(response)
AppendRecords ==
    /\ pc = "records"
    /\ LET r == getVideoRecords(response) IN
         IF r.raised
         THEN /\ pc' = "raised"
              /\ UNCHANGED video_record_list
         ELSE /\ pc' = "token"
              /\ video_record_list' = video_record_list \o r.value
    /\ UNCHANGED <<page_token, response, requests, video_ids>>
    /\ CollectorUnchanged

\* lines 52-57
GrabNextPageToken ==
    /\ pc = "token"
    /\ page_token' = NextPageToken(response)
    /\ pc' = "loop"
    /\ UNCHANGED <<response, requests, video_record_list, video_ids>>
    /\ CollectorUnchanged

\* line 45 (loop exit) and line 60
WriteVideoIds ==
    /\ pc = "loop"
    /\ page_token = PyInt0
    /\ video_ids' = File(DataFrame(video_record_list))
    /\ pc' = "done"
    /\ UNCHANGED <<page_token, response, requests, video_record_list>>
    /\ CollectorUnchanged

Init ==
    \* a page is served only after a page that carried a cursor, and the
    \* last page of the script carries none
    /\ \E n \in 0..(MaxPages - 1) :
         \E earlier \in [1..n -> CursorBodies], last \in FinalBodies :
            pages = Append(earlier, last)
    /\ captions = <<>>
    /\ pc = "loop"
    /\ page_token = PyNone
    /\ response = [json |-> "none"]
    /\ requests = <<>>
    /\ video_record_list = <<>>
    /\ transcript_text_list = <<>>
    /\ video_ids = NoFile
    /\ video_transcripts = NoFile
    /\ video_index = NoFile
    /\ runs = 0

Next == Request \/ AppendRecords \/ GrabNextPageToken \/ WriteVideoIds

Spec == Init /\ [][Next]_vars

(***************************************************************************)
(* Claims about getVideoIDs, checked under Spec.                           *)
(***************************************************************************)
ItemsOf(body) == IF HasKey(body, "items") THEN body.value.items ELSE <<>>
PageItems(ps) == Concat([k \in 1..Len(ps) |-> ItemsOf(ps[k])])
Served == SubSeq(pages, 1, Len(requests))
IsSearchResponse(body) == body.json = "object"
AllSearchResponses == \A k \in 1..Len(pages) : IsSearchResponse(pages[k])
Stopped == pc \in {"done", "raised"}

\* C1: when every page of the script is a search response (a JSON object), the
\* last without a next cursor and every earlier one with one, getVideoIDs
\* never raises, keeps making progress until it is done, requests every page,
\* and the table it writes to video-ids is the concatenation of the pages'
\* items in page order.
C1_PaginationConcatenates ==
    AllSearchResponses =>
        /\ pc # "raised"
        /\ pc # "done" => ENABLED Next
        /\ pc = "done" =>
            /\ Len(requests) = Len(pages)
            /\ video_ids = File(DataFrame(PageItems(pages)))

C1_Witness ==
    /\ pc = "done"
    /\ AllSearchResponses
    /\ Len(pages) = 3
    /\ \A k \in 1..3 : ItemsOf(pages[k]) # <<>>
    /\ ItemsOf(pages[1]) # ItemsOf(pages[2])
    /\ ItemsOf(pages[1]) = ItemsOf(pages[3])

\* C2: a response whose body is not valid JSON, or is valid JSON without the
\* `items' key, makes getVideoRecords return [] without raising: the list is
\* left as it was, getVideoIDs goes on to read the cursor, and what it writes
\* at the end is the concatenation of the items of the pages it was served.
C2_MalformedPageTolerated ==
    /\ (pc \in {"token", "raised"} /\ ~HasKey(response, "items")) =>
            /\ pc = "token"
            /\ video_record_list = PageItems(SubSeq(pages, 1, Len(requests) - 1))
    /\ pc = "done" => video_ids = File(DataFrame(PageItems(Served)))

\* C6: every row written to video-ids carries the columns the later stages
\* read: video_id (getVideoTranscripts), title and datetime (transformData).
C6_VideoIdsSchema ==
    video_ids.exists =>
        \A k \in 1..Len(video_ids.df) :
            {"video_id", "title", "datetime"} \subseteq DOMAIN video_ids.df[k]

\* C10: the first request carries the empty cursor (None); every later request
\* follows a response that carried nextPageToken and carries exactly that
\* token; after a response with a cursor a further request is issued, also
\* when the page has no items; after the first response without a cursor no
\* request is issued and the loop stops.
C10_CursorProtocol ==
    /\ Len(requests) >= 1 => requests[1] = PyNone
    /\ \A k \in 2..Len(requests) :
            /\ HasCursor(pages[k - 1])
            /\ requests[k] = PyStr(pages[k - 1].value.nextPageToken)
    /\ (pc = "loop" /\ requests = <<>>) => ENABLED Request
    /\ (pc = "loop" /\ requests # <<>>) => (ENABLED Request <=> HasCursor(response))
    /\ (pc = "token" /\ HasCursor(response)) => ENABLED GrabNextPageToken
    /\ (pc = "records" /\ HasCursor(response)) => ~getVideoRecords(response).raised
    /\ Stopped => ~HasCursor(response)

C10_Witness ==
    /\ pc = "done"
    /\ Len(requests) = 3
    /\ ~HasKey(pages[1], "items")
    /\ requests[2] # requests[3]

(***************************************************************************)
(* getVideoTranscripts.  The table it reads has either the columns of the  *)
(* data model (video_id, datetime, title) or the columns getVideoIDs       *)
(* writes (the raw search results).  get_transcript either raises or       *)
(* returns fragments; a fragment normally holds text, start and duration.  *)
(***************************************************************************)
NA == <<"n", "/", "a">>
Space == <<" ">>

\* a column value with its polars dtype (the datetime column is cast in stage 3)
Typed(dtype, v) == [dtype |-> dtype, value |-> v]

VideoRecord(n) ==
    [video_id |-> VideoId(n), datetime |-> Typed("String", PublishedAt), title |-> <<"t">>]
FlatTable(n) == [k \in 1..n |-> VideoRecord(k)]
RawTable(n) == [k \in 1..n |-> SearchResult(VideoId(k))]

FragmentTexts == {<<"a">>, <<"b", "c">>}
Fragments ==
    {[text |-> t, start |-> 0, duration |-> 1] : t \in FragmentTexts}
    \cup {[start |-> 0, duration |-> 1]}
LookupErrors == {"TranscriptsDisabled", "ConnectionError"}
Outcomes ==
    {Raised(e) : e \in LookupErrors}
    \cup {Returned(fs) : fs \in SeqsUpTo(Fragments, MaxFrags)}

RECURSIVE Join(_, _)
Join(sep, list) ==
    IF list = <<>> THEN <<>>
    ELSE IF Len(list) = 1 THEN list[1]
    ELSE list[1] \o sep \o Join(sep, Tail(list))

\* faulty variant: ''.join for ' '.join
extractTranscriptTextNoSeparator(transcript) ==
    IF \E k \in 1..Len(transcript) : "text" \notin DOMAIN transcript[k]
    THEN Raised("KeyError")
    ELSE Returned(Concat([k \in 1..Len(transcript) |-> transcript[k].text]))

\* lines 71-72: transcript[i]['text'] raises KeyError on a fragment without text
extractTranscriptText(transcript) ==
    IF \E k \in 1..Len(transcript) : "text" \notin DOMAIN transcript[k]
    THEN Raised("KeyError")
    ELSE Returned(Join(Space, [k \in 1..Len(transcript) |-> transcript[k].text]))

\* faulty variant: the empty string for the sentinel
TranscriptTextEmptyOnError(df, outcome) ==
    IF "video_id" \notin Columns(df) \/ outcome.raised
    THEN <<>>
    ELSE LET t == extractTranscriptText(outcome.value) IN
         IF t.raised THEN <<>> ELSE t.value

\* lines 91-96: df['video_id'] raises ColumnNotFoundError when the column is
\* missing, get_transcript may raise, extractTranscriptText may raise; the
\* bare except turns each into "n/a"
TranscriptText(df, outcome) ==
    IF "video_id" \notin Columns(df) THEN NA
    ELSE IF outcome.raised THEN NA
    ELSE LET t == extractTranscriptText(outcome.value) IN
         IF t.raised THEN NA ELSE t.value

\* df.with_columns(pl.Series(name, values)): adds the column, or replaces it
WithColumn(df, name, values) == [k \in 1..Len(df) |-> (name :> values[k]) @@ df[k]]

FetcherUnchanged ==
    UNCHANGED <<pages, captions, page_token, response, requests,
                video_record_list, video_ids, video_index, runs>>

\* lines 88-98: one iteration of the loop
FetchTranscript ==
    /\ pc = "fetch"
    /\ Len(transcript_text_list) < Len(video_ids.df)
    /\ transcript_text_list' =
          Append(transcript_text_list,
                 TranscriptText(video_ids.df, captions[Len(transcript_text_list) + 1]))
    /\ UNCHANGED <<pc, video_transcripts>>
    /\ FetcherUnchanged

\* lines 101-104
WriteTranscripts ==
    /\ pc = "fetch"
    /\ Len(transcript_text_list) = Len(video_ids.df)
    /\ video_transcripts' =
          File(WithColumn(video_ids.df, "transcript", transcript_text_list))
    /\ pc' = "done"
    /\ UNCHANGED transcript_text_list
    /\ FetcherUnchanged

FetcherInit ==
    /\ \E n \in 1..MaxRows :
         \/ /\ video_ids = File(FlatTable(n))
            /\ captions \in [1..n -> Outcomes]
         \/ /\ video_ids = File(RawTable(n))
            /\ captions = [k \in 1..n |-> Raised("ConnectionError")]
    /\ pages = <<>>
    /\ pc = "fetch"
    /\ page_token = PyNone
    /\ response = [json |-> "none"]
    /\ requests = <<>>
    /\ video_record_list = <<>>
    /\ transcript_text_list = <<>>
    /\ video_transcripts = NoFile
    /\ video_index = NoFile
    /\ runs = 0

FetcherNext == FetchTranscript \/ WriteTranscripts

SpecF == FetcherInit /\ [][FetcherNext]_vars

(***************************************************************************)
(* Claims about getVideoTranscripts, checked under SpecF.                  *)
(***************************************************************************)
LookupFails(k) ==
    \/ "video_id" \notin Columns(video_ids.df)
    \/ captions[k].raised
    \/ \E f \in 1..Len(captions[k].value) : "text" \notin DOMAIN captions[k].value[f]

\* C3: getVideoTranscripts never raises; every row whose caption lookup
\* raised has the transcript "n/a", the rows after it are still processed,
\* and the table written has one transcript per input row, next to the
\* row's own columns.
C3_SentinelOnFailure ==
    /\ \A k \in 1..Len(transcript_text_list) :
            LookupFails(k) => transcript_text_list[k] = NA
    /\ pc # "done" => ENABLED FetcherNext
    /\ pc = "done" =>
        /\ Len(video_transcripts.df) = Len(video_ids.df)
        /\ \A k \in 1..Len(video_ids.df) :
            /\ "transcript" \in DOMAIN video_transcripts.df[k]
            /\ LookupFails(k) => video_transcripts.df[k].transcript = NA
            /\ \A c \in DOMAIN video_ids.df[k] :
                    video_transcripts.df[k][c] = video_ids.df[k][c]

C3_Witness ==
    /\ pc = "done"
    /\ Len(video_ids.df) = 2
    /\ "video_id" \in Columns(video_ids.df)
    /\ captions[1].raised
    /\ ~LookupFails(2)
    /\ video_transcripts.df[1].transcript = NA
    /\ video_transcripts.df[2].transcript # NA

\* C4: a row whose lookup returned the fragments f1..fn gets, in that same
\* row, f1.text .. fn.text in order with exactly one space between
\* consecutive fragments, nothing before the first or after the last, and
\* the empty string for n = 0.
JoinedLength(fs) ==
    IF fs = <<>> THEN 0
    ELSE Len(Concat([f \in 1..Len(fs) |-> fs[f].text])) + Len(fs) - 1

IsSpaceJoined(text, fs) ==
    /\ Len(text) = JoinedLength(fs)
    /\ \A f \in 1..Len(fs) :
         LET start == JoinedLength(SubSeq(fs, 1, f - 1)) + (IF f = 1 THEN 0 ELSE 1) IN
         /\ SubSeq(text, start + 1, start + Len(fs[f].text)) = fs[f].text
         /\ f > 1 => text[start] = " "

C4_FragmentsJoined ==
    pc = "done" =>
        \A k \in 1..Len(video_ids.df) :
            ~LookupFails(k) =>
                /\ video_transcripts.df[k].video_id = video_ids.df[k].video_id
                /\ IsSpaceJoined(video_transcripts.df[k].transcript, captions[k].value)

C4_Witness ==
    /\ pc = "done"
    /\ Len(video_ids.df) = 2
    /\ ~LookupFails(1) /\ ~LookupFails(2)
    /\ captions[1].value = <<[text |-> <<"a">>, start |-> 0, duration |-> 1],
                             [text |-> <<"b", "c">>, start |-> 0, duration |-> 1]>>
    /\ video_transcripts.df[1].transcript = <<"a", " ", "b", "c">>
    /\ captions[2].value = <<>>
    /\ video_transcripts.df[2].transcript = <<>>

(***************************************************************************)
(* transformData: handleSpecialStrings and setDatatypes.                   *)
(*                                                                         *)
(* polars' str.replace(pattern, value) rewrites the first match only       *)
(* (str.replace_all rewrites every one).  None of the three patterns holds *)
(* a regex metacharacter, so a match is a literal occurrence.              *)
(***************************************************************************)
special_strings ==
    << <<"&", "#", "3", "9", ";">>, <<"&", "a", "m", "p", ";">>, <<"s", "h", "a", " ">> >>
special_string_replacements ==
    << <<"'">>, <<"&">>, <<"S", "h", "a", "w", " ">> >>

Occurs(s, pat, at) == at + Len(pat) - 1 <= Len(s) /\ SubSeq(s, at, at + Len(pat) - 1) = pat
Contains(s, pat) == \E at \in 1..Len(s) : Occurs(s, pat, at)

\* Series.str.replace: the leftmost match is replaced, the rest is kept
StrReplace(s, pat, val) ==
    IF ~Contains(s, pat) THEN s
    ELSE LET at == CHOOSE a \in 1..Len(s) :
                      Occurs(s, pat, a) /\ \A b \in 1..(a - 1) : ~Occurs(s, pat, b)
         IN SubSeq(s, 1, at - 1) \o val \o SubSeq(s, at + Len(pat), Len(s))

\* lines 118-120 on one value: the three replacements in list order
RECURSIVE ReplaceFrom(_, _)
ReplaceFrom(s, i) ==
    IF i > Len(special_strings) THEN s
    ELSE ReplaceFrom(StrReplace(s, special_strings[i], special_string_replacements[i]), i + 1)

\* lines 115-122: df['title'] and df['transcript'] raise ColumnNotFoundError
\* when the column is missing
handleSpecialStrings(df) ==
    IF ~({"title", "transcript"} \subseteq Columns(df))
    THEN Raised("ColumnNotFoundError")
    ELSE Returned([k \in 1..Len(df) |->
            [df[k] EXCEPT !.title = ReplaceFrom(@, 1), !.transcript = ReplaceFrom(@, 1)]])

\* line 133: the datetime column becomes a Datetime column
setDatatypes(df) ==
    IF "datetime" \notin Columns(df)
    THEN Raised("ColumnNotFoundError")
    ELSE Returned([k \in 1..Len(df) |->
            [df[k] EXCEPT !.datetime = Typed("Datetime", @.value)]])

NormalizerUnchanged ==
    UNCHANGED <<pages, captions, page_token, response, requests,
                video_record_list, transcript_text_list, video_ids>>

\* lines 147-152
TransformData ==
    /\ pc = "transform"
    /\ runs < MaxRuns
    /\ LET cleaned == handleSpecialStrings(video_transcripts.df) IN
         IF cleaned.raised
         THEN pc' = "raised" /\ UNCHANGED <<video_transcripts, runs>>
         ELSE LET typed == setDatatypes(cleaned.value) IN
              IF typed.raised
              THEN pc' = "raised" /\ UNCHANGED <<video_transcripts, runs>>
              ELSE /\ video_transcripts' = File(typed.value)
                   /\ runs' = runs + 1
                   /\ UNCHANGED pc
    /\ UNCHANGED video_index
    /\ NormalizerUnchanged

(***************************************************************************)
(* createTextEmbeddings.  The pretrained model is a deterministic function *)
(* from a text to Dim numbers; which numbers is of no matter here.         *)
(***************************************************************************)
column_name_list == <<"title", "transcript">>

Digits == <<"0", "1", "2", "3", "4", "5", "6", "7", "8", "9">>
str(i) == IF i < 10 THEN Digits[i + 1] ELSE Digits[(i \div 10) + 1] \o Digits[(i % 10) + 1]

\* line 171: model.encode(list of texts), one row of Dim numbers per text
Encode(texts) == [k \in 1..Len(texts) |-> [i \in 0..(Dim - 1) |-> Len(texts[k]) + i]]

\* faulty variant: components numbered from 1
EmbeddingNameFromOne(column_name, i) == column_name \o "_embedding-" \o str(i + 1)

\* line 174: the name of component i of column_name's embedding
EmbeddingName(column_name, i) == column_name \o "_embedding-" \o str(i)

\* lines 174-175: pl.DataFrame(embedding_arr, schema=schema_dict)
EmbeddingFrame(column_name, embedding_arr) ==
    [k \in 1..Len(embedding_arr) |->
        [c \in {EmbeddingName(column_name, i) : i \in DOMAIN embedding_arr[k]} |->
            embedding_arr[k][CHOOSE i \in DOMAIN embedding_arr[k] :
                                EmbeddingName(column_name, i) = c]]]

\* line 178: pl.concat(..., how='horizontal') raises on a column name both
\* frames hold
ConcatHorizontal(df, other) ==
    IF Columns(df) \cap Columns(other) # {}
    THEN Raised("DuplicateError")
    ELSE Returned([k \in 1..Len(df) |-> df[k] @@ other[k]])

\* lines 169-178, from column i of column_name_list on
RECURSIVE EmbedColumns(_, _)
EmbedColumns(df, i) ==
    IF i > Len(column_name_list) THEN Returned(df)
    ELSE IF column_name_list[i] \notin Columns(df) THEN Raised("ColumnNotFoundError")
    ELSE LET column_name == column_name_list[i]
             embedding_arr == Encode([k \in 1..Len(df) |-> df[k][column_name]])
             joined == ConcatHorizontal(df, EmbeddingFrame(column_name, embedding_arr))
         IN IF joined.raised THEN joined ELSE EmbedColumns(joined.value, i + 1)

\* faulty variant: rows without a transcript are left out of the index
EmbedRowsWithTranscript(df) ==
    EmbedColumns(SelectSeq(df, LAMBDA row : row.transcript # NA), 1)

\* lines 167-178
EmbedAll(df) == EmbedColumns(df, 1)

\* lines 160-181
CreateTextEmbeddings ==
    /\ pc = "transform"
    /\ runs >= 1
    /\ LET r == EmbedAll(video_transcripts.df) IN
         IF r.raised
         THEN pc' = "raised" /\ UNCHANGED video_index
         ELSE pc' = "done" /\ video_index' = File(r.value)
    /\ UNCHANGED <<video_transcripts, runs>>
    /\ NormalizerUnchanged

(***************************************************************************)
(* The tables stages 3 and 4 start from: what getVideoTranscripts writes   *)
(* for a table of the data model, with titles and transcripts built from   *)
(* the target substrings, or for the raw table getVideoIDs writes.         *)
(***************************************************************************)
Pieces == {special_strings[1], special_strings[2], special_strings[3],
           <<"#", "3", "9", ";">>, <<>>}
Texts == {p \o q : p, q \in Pieces}

TextPairs ==
    {[title |-> t, transcript |-> NA] : t \in Texts}
    \cup {[title |-> <<"t">>, transcript |-> t] : t \in Pieces}

TranscriptTable(tp) ==
    [k \in 1..Len(tp) |->
        [VideoRecord(k) @@ [transcript |-> NA]
            EXCEPT !.title = tp[k].title, !.transcript = tp[k].transcript]]

NormalizerInit ==
    /\ \E n \in 1..MaxRows :
         \/ \E tp \in [1..n -> TextPairs] :
                video_transcripts = File(TranscriptTable(tp))
         \/ video_transcripts =
                File(WithColumn(RawTable(n), "transcript", [k \in 1..n |-> NA]))
    /\ pages = <<>>
    /\ captions = <<>>
    /\ pc = "transform"
    /\ page_token = PyNone
    /\ response = [json |-> "none"]
    /\ requests = <<>>
    /\ video_record_list = <<>>
    /\ transcript_text_list = <<>>
    /\ video_ids = NoFile
    /\ video_index = NoFile
    /\ runs = 0

NormalizerNext == TransformData \/ CreateTextEmbeddings

SpecN == NormalizerInit /\ [][NormalizerNext]_vars

(***************************************************************************)
(* Claims about transformData and createTextEmbeddings, checked under      *)
(* SpecN.                                                                  *)
(***************************************************************************)
HasTarget(s) == \E i \in 1..Len(special_strings) : Contains(s, special_strings[i])

\* the row keys of a table: video_id, or the search result's own id for a
\* table of raw search results
RowKeys(df) ==
    [k \in 1..Len(df) |->
        IF "video_id" \in DOMAIN df[k] THEN df[k].video_id ELSE df[k].id.videoId]

\* C5: the Text Normalizer is idempotent: once transformData has run on the
\* persisted file, running it again leaves every title and transcript (the
\* whole file) as it is.
C5_NormalizerIdempotent ==
    [][runs >= 1 => video_transcripts' = video_transcripts]_vars

\* C9: after the Text Normalizer has run, no title and no transcript holds
\* '&#39;', '&amp;' or 'sha '.
C9_NoTargetLeft ==
    runs >= 1 =>
        \A k \in 1..Len(video_transcripts.df) :
            /\ ~HasTarget(video_transcripts.df[k].title)
            /\ ~HasTarget(video_transcripts.df[k].transcript)

\* C7: every step of transformData and createTextEmbeddings keeps the rows:
\* the rewritten video-transcripts and the new video-index have the row
\* count, the row order and the identifiers of the video-transcripts file
\* they were made from, and each row keeps its video_id.
C7_RowsStable ==
    [][/\ video_transcripts'.exists /\ RowKeys(video_transcripts'.df) = RowKeys(video_transcripts.df)
       /\ video_index'.exists => RowKeys(video_index'.df) = RowKeys(video_transcripts.df)]_vars

C7_Witness ==
    /\ video_index.exists
    /\ runs = 2
    /\ Len(video_index.df) = 2
    /\ video_index.df[1].transcript = NA
    /\ video_index.df[2].transcript # NA
    /\ video_index.df[1].video_id # video_index.df[2].video_id

\* C8: the table written to video-index has the columns of the table read
\* plus exactly 2*Dim new ones, title_embedding-i and transcript_embedding-i
\* for every i in 0..Dim-1, and every column that was there keeps its values.
ExpectedEmbeddingNames ==
    {column_name_list[f] \o "_embedding-" \o str(i) :
        f \in 1..Len(column_name_list), i \in 0..(Dim - 1)}

C8_EmbeddingShape ==
    video_index.exists =>
        /\ Len(video_index.df) = Len(video_transcripts.df)
        /\ \A k \in 1..Len(video_index.df) :
            LET old == video_transcripts.df[k]
                new == video_index.df[k]
            IN /\ DOMAIN new = DOMAIN old \cup ExpectedEmbeddingNames
               /\ DOMAIN old \cap ExpectedEmbeddingNames = {}
               /\ Cardinality(DOMAIN new \ DOMAIN old) = 2 * Dim
               /\ \A c \in DOMAIN old : new[c] = old[c]

C8_Witness ==
    /\ video_index.exists
    /\ Len(video_index.df) = 2
    /\ "title_embedding-0" \in DOMAIN video_index.df[2]
    /\ "transcript_embedding-1" \in DOMAIN video_index.df[2]
    /\ video_index.df[1]["title_embedding-0"] # video_index.df[2]["title_embedding-0"]

====
